---- MODULE Spec2Model ----
(***************************************************************************)
(* The calculator of rukhmanand99/Midterm: the command registry and        *)
(* dispatch of Calculator (src/src/calculator.py), its history store with  *)
(* filtering and CSV persistence, the PluginManager                        *)
(* (src/src/plugin_mananger.py), and the command loop of CalculatorREPL    *)
(* (src/src/repl.py).                                                      *)
(*                                                                         *)
(* Python floats are modelled as exact rationals [n, d] (rounding is not    *)
(* modelled); datetime instants as natural numbers (clock ticks).           *)
(***************************************************************************)
EXTENDS Integers, Sequences, FiniteSets, TLC

VARIABLES
    commands,   \* Calculator._commands: lowercase key -> command instance
    history,    \* Calculator._history: the rows of the DataFrame, in order
    clock,      \* the last instant datetime.now() returned
    files,      \* the file system: path -> CSV content, or NoFile
    saved,      \* per path, the history that the last save_history wrote
    plugins,    \* PluginManager._plugins: lowercase key -> command class
    last,       \* the last call: its arguments, its outcome, what it returned
    repl        \* CalculatorREPL: not built, in cmdloop, or out of it

vars == <<commands, history, clock, files, saved, plugins, last, repl>>

(***************************************************************************)
(* Bounds of the model.                                                    *)
(***************************************************************************)
\* The most records of a history, and the last instant of the clock.
MaxHist == 3
MaxClock == 3
\* The most records of a history in the calculator specification.
MaxCalcHist == 2
\* The greatest numerator of an operand in the command specification.
MaxOperand == 2

None == "None"

\* A path with no file at it.
NoFile == [exists |-> FALSE, header |-> <<>>, rows |-> <<>>]

(***************************************************************************)
(* Python values and floats.                                               *)
(***************************************************************************)
Abs(x) == IF x < 0 THEN -x ELSE x

RECURSIVE Gcd(_, _)
Gcd(x, y) == IF y = 0 THEN x ELSE Gcd(y, x % y)

\* A float, as the rational n/d in lowest terms with d > 0.
Rat(n, d) ==
    LET g == Gcd(Abs(n), Abs(d))
        s == IF d < 0 THEN -1 ELSE 1
    IN  [n |-> (s * n) \div g, d |-> (s * d) \div g]

\* No float: the value returned by a call that raised.
NoValue == [n |-> 0, d |-> 0]

\* The Python values passed as operands: an int, the text of a number, or
\* text that is no number.
PyInt(v) == [kind |-> "int", v |-> v, numeric |-> TRUE]
PyStr(v) == [kind |-> "str", v |-> v, numeric |-> TRUE]
PyText == [kind |-> "str", v |-> 0, numeric |-> FALSE]

\* float(x) succeeds on numbers and on numeric text, and raises ValueError
\* on other text.
IsNumeric(x) == x.numeric

\* float(x)
Float(x) == Rat(x.v, 1)

\* str.lower() on the names the model uses.
Lower(s) ==
    CASE s \in {"ADD", "Add"} -> "add"
      [] s = "DIVIDE" -> "divide"
      [] s = "Test" -> "test"
      [] s = "PowerCommand" -> "powercommand"
      [] s = "SquareRootCommand" -> "squarerootcommand"
      [] s = "LogarithmCommand" -> "logarithmcommand"
      [] s = "Command" -> "command"
      [] OTHER -> s

(***************************************************************************)
(* The commands.  A result is [ok |-> TRUE, value |-> float] or            *)
(* [ok |-> FALSE, error |-> exception].                                    *)
(***************************************************************************)
Ok(v) == [ok |-> TRUE, value |-> v, error |-> None]
Raise(e) == [ok |-> FALSE, value |-> NoValue, error |-> e]

AddExecute(a, b) == Ok(Rat(a.n * b.d + b.n * a.d, a.d * b.d))

SubtractExecute(a, b) == Ok(Rat(a.n * b.d - b.n * a.d, a.d * b.d))

MultiplyExecute(a, b) == Ok(Rat(a.n * b.n, a.d * b.d))

DivideExecute(a, b) ==
    IF b.n = 0 THEN Raise("ZeroDivisionError")
    ELSE Ok(Rat(a.n * b.d, a.d * b.n))

\* A result that is no rational: the function and its arguments.
Irrational(fn, a, b) == [fn |-> fn, of |-> a, to |-> b]

\* The call gives no second operand (the parameter takes its default).
NoSecond == [default |-> TRUE]

IsSquare(k) == \E r \in 0 .. k : r * r = k
Root(k) == CHOOSE r \in 0 .. k : r * r = k

RECURSIVE IntPow(_, _)
IntPow(x, k) == IF k = 0 THEN 1 ELSE x * IntPow(x, k - 1)

\* math.pow(float(a), float(b)): ValueError for 0 to a negative power and
\* for a negative base with a fractional exponent.
PowerExecute(a, b) ==
    IF a.n = 0 /\ b.n < 0 THEN Raise("ValueError")
    ELSE IF a.n < 0 /\ b.d # 1 THEN Raise("ValueError")
    ELSE IF b.d = 1 /\ b.n >= 0
    THEN Ok(Rat(IntPow(a.n, b.n), IntPow(a.d, b.n)))
    ELSE IF b.d = 1
    THEN Ok(Rat(IntPow(a.d, -b.n), IntPow(a.n, -b.n)))
    ELSE IF a.n = 0 \/ a = Rat(1, 1) THEN Ok(a)
    ELSE Ok(Irrational("pow", a, b))

SquareRootExecuteOfAbs(a, b) ==
    IF IsSquare(Abs(a.n)) /\ IsSquare(a.d)
    THEN Ok(Rat(Root(Abs(a.n)), Root(a.d)))
    ELSE Ok(Irrational("sqrt", a, NoSecond))

\* SquareRootCommand.execute(a, b=0): b is not used
SquareRootExecute(a, b) ==
    IF a.n < 0 THEN Raise("ValueError")
    ELSE IF IsSquare(a.n) /\ IsSquare(a.d)
    THEN Ok(Rat(Root(a.n), Root(a.d)))
    ELSE Ok(Irrational("sqrt", a, NoSecond))

\* LogarithmCommand.execute(a, b=math.e): math.log(x, base) raises
\* ValueError for a base that is not positive and ZeroDivisionError for
\* base 1.
LogarithmExecute(a, b) ==
    IF a.n <= 0 THEN Raise("ValueError")
    ELSE IF b = NoSecond
    THEN (IF a = Rat(1, 1) THEN Ok(Rat(0, 1))
          ELSE Ok(Irrational("log", a, NoSecond)))
    ELSE IF b.n <= 0 THEN Raise("ValueError")
    ELSE IF b = Rat(1, 1) THEN Raise("ZeroDivisionError")
    ELSE IF a = Rat(1, 1) THEN Ok(Rat(0, 1))
    ELSE IF a = b THEN Ok(Rat(1, 1))
    ELSE Ok(Irrational("log", a, b))

\* command.execute(a, b), by the class of the instance
CommandExecute(cmd, a, b) ==
    CASE cmd = "AddCommand" -> AddExecute(a, b)
      [] cmd = "SubtractCommand" -> SubtractExecute(a, b)
      [] cmd = "MultiplyCommand" -> MultiplyExecute(a, b)
      [] cmd = "DivideCommand" -> DivideExecute(a, b)
      [] cmd = "PowerCommand" -> PowerExecute(a, b)
      [] cmd = "SquareRootCommand" -> SquareRootExecute(a, b)
      [] cmd = "LogarithmCommand" -> LogarithmExecute(a, b)

\* Calculator.__new__: the four base commands
BaseCommands ==
    [k \in {"add", "subtract", "multiply", "divide"} |->
        CASE k = "add" -> "AddCommand"
          [] k = "subtract" -> "SubtractCommand"
          [] k = "multiply" -> "MultiplyCommand"
          [] k = "divide" -> "DivideCommand"]

\* dict.get(key): None when the key is absent
DictGet(dict, key) == IF key \in DOMAIN dict THEN dict[key] ELSE None

\* dict[key] = value
DictSet(dict, key, value) ==
    [k \in DOMAIN dict \cup {key} |-> IF k = key THEN value ELSE dict[k]]

\* str(operands): the text of the pair of floats
StrOfOperands(a, b) == [text |-> "tuple", first |-> a, second |-> b]

\* The row _add_to_history builds.
NewRecord(now, operation, operands, result) ==
    [timestamp |-> now, operation |-> operation,
     operands |-> operands, result |-> result]

AddToHistoryFront(h, now, operation, operands, result) ==
    <<NewRecord(now, operation, operands, result)>> \o h

\* pd.concat([self._history, new_record], ignore_index=True)
AddToHistory(h, now, operation, operands, result) ==
    Append(h, NewRecord(now, operation, operands, result))

NoCall == [op |-> "none"]

Init ==
    /\ commands = BaseCommands
    /\ history = <<>>
    /\ clock = 0
    /\ files = [p \in {"h.csv", "g.csv"} |-> NoFile]
    /\ saved = [p \in {"h.csv", "g.csv"} |-> <<>>]
    /\ plugins = [k \in {} |-> None]
    /\ last = NoCall
    /\ repl = "none"

(***************************************************************************)
(* Calculator.execute_command(command_name, a, b) as a function of the     *)
(* registry and the history; now is what datetime.now() returns when the   *)
(* record is built.  Gives the outcome, the value returned and the new     *)
(* history.                                                                *)
(***************************************************************************)
ExecuteCommandLogFirst(cmds, h, name, a, b, now) ==
    LET command == DictGet(cmds, Lower(name))
        logged == Append(h, NewRecord(now, name, StrOfOperands(NoValue, NoValue), NoValue))
    IN  IF command = None
        THEN [outcome |-> "ValueError", value |-> NoValue, history |-> logged]
        ELSE IF ~IsNumeric(a) \/ ~IsNumeric(b)
        THEN [outcome |-> "ValueError", value |-> NoValue, history |-> logged]
        ELSE LET r == CommandExecute(command, Float(a), Float(b))
             IN  IF ~r.ok
                 THEN [outcome |-> r.error, value |-> NoValue, history |-> logged]
                 ELSE [outcome |-> "ok", value |-> r.value,
                       history |-> AddToHistory(h, now, name,
                                       StrOfOperands(Float(a), Float(b)), r.value)]

ExecuteCommand(cmds, h, name, a, b, now) ==
    LET command == DictGet(cmds, Lower(name))
    IN  IF command = None
        THEN [outcome |-> "ValueError", value |-> NoValue, history |-> h]
        ELSE IF ~IsNumeric(a) \/ ~IsNumeric(b)
        THEN [outcome |-> "ValueError", value |-> NoValue, history |-> h]
        ELSE LET r == CommandExecute(command, Float(a), Float(b))
             IN  IF ~r.ok
                 THEN [outcome |-> r.error, value |-> NoValue, history |-> h]
                 ELSE [outcome |-> "ok", value |-> r.value,
                       history |-> AddToHistory(h, now, name,
                                       StrOfOperands(Float(a), Float(b)), r.value)]

Execute(name, a, b, now) ==
    LET r == ExecuteCommand(commands, history, name, a, b, now)
    IN  /\ Len(r.history) <= MaxHist
        /\ history' = r.history
        /\ clock' = IF r.outcome = "ok" THEN now ELSE clock
        /\ last' = [op |-> "execute_command", name |-> name, a |-> a, b |-> b,
                    outcome |-> r.outcome, value |-> r.value]
        /\ UNCHANGED <<commands, files, saved, plugins, repl>>

\* The key register_command stores a command under.
RegisterKeyAsGiven(name) == name

RegisterKey(name) == Lower(name)

(***************************************************************************)
(* Calculator.register_command(name, command)                              *)
(***************************************************************************)
RegisterCommand(name, command) ==
    /\ commands' = DictSet(commands, RegisterKey(name), command)
    /\ last' = [op |-> "register_command", name |-> name,
                command |-> command, outcome |-> "ok"]
    /\ UNCHANGED <<history, clock, files, saved, plugins, repl>>

(***************************************************************************)
(* The calculator specification: registration and execution.  The clock    *)
(* advances by one tick at every record.                                   *)
(***************************************************************************)
CalcNames == {"add", "ADD", "divide", "Test", "nope"}
CalcFirst == {PyInt(3)}
CalcSecond == {PyInt(0), PyStr(2), PyText}
RegNames == {"ADD", "Test"}
RegCommands == {"SubtractCommand", "MultiplyCommand"}

NextCalc ==
    \/ \E name \in CalcNames, a \in CalcFirst, b \in CalcSecond :
          /\ Len(ExecuteCommand(commands, history, name, a, b,
                                clock + 1).history) <= MaxCalcHist
          /\ Execute(name, a, b, clock + 1)
    \/ \E name \in RegNames, command \in RegCommands :
          RegisterCommand(name, command)

SpecCalc == Init /\ [][NextCalc]_vars

(***************************************************************************)
(* Calculator.get_available_commands(): the keys (their sorted order is    *)
(* not modelled: the value is the set of the names in the list).           *)
(***************************************************************************)
GetAvailableCommands ==
    /\ last' = [op |-> "get_available_commands", outcome |-> "ok",
                names |-> DOMAIN commands]
    /\ UNCHANGED <<commands, history, clock, files, saved, plugins, repl>>

(***************************************************************************)
(* The plugin directories.  A file of a listing has a name, the members    *)
(* dir(module) gives once it is loaded, and whether loading it succeeds    *)
(* (spec_from_file_location gives a loader and exec_module does not        *)
(* raise).                                                                 *)
(***************************************************************************)
PluginFile(name, loads, members) ==
    [name |-> name, loads |-> loads, members |-> members]

\* plugins/statistics.py: its classes, the Command it imports, and the
\* modules it imports.
StatisticsPy ==
    PluginFile("statistics.py", TRUE,
               {"Command", "LogarithmCommand", "PowerCommand",
                "SquareRootCommand", "logging", "math"})

\* os.listdir(plugin_dir), for the directories that exist
Listing(dir) ==
    CASE dir = "plugins" -> <<StatisticsPy>>
      [] dir = "mixed" ->
            <<PluginFile("__init__.py", TRUE, {"SquareRootCommand"}),
              PluginFile("power.py", TRUE, {"Command", "PowerCommand", "math"}),
              PluginFile("notes.txt", TRUE, {"LogarithmCommand"})>>
      [] dir = "broken" ->
            <<PluginFile("power.py", TRUE, {"Command", "PowerCommand", "math"}),
              PluginFile("bad.py", FALSE, {"SquareRootCommand"}),
              PluginFile("log.py", TRUE, {"Command", "LogarithmCommand"})>>

\* os.path.exists(plugin_dir)
DirExists(dir) == dir \in {"plugins", "mixed", "broken"}

\* filename.endswith('.py')
EndsWithPy(name) ==
    name \in {"statistics.py", "__init__.py", "power.py", "bad.py", "log.py"}

\* filename.startswith('__')
StartsWithDunder(name) == name = "__init__.py"

\* The file filter of discover_plugins.
Eligible(file) == EndsWithPy(file.name) /\ ~StartsWithDunder(file.name)

\* isinstance(item, type) and issubclass(item, Command), by member name
IsCommandClass(item) ==
    item \in {"Command", "PowerCommand", "SquareRootCommand", "LogarithmCommand"}

\* The members of a loaded module that _load_plugin registers.
PluginClasses(file) ==
    {item \in file.members : IsCommandClass(item) /\ item # "Command"}

LoadPluginToggling(plugs, file) ==
    [k \in (DOMAIN plugs \cup {Lower(item) : item \in PluginClasses(file)})
              \ (DOMAIN plugs \cap {Lower(item) : item \in PluginClasses(file)})
        |-> IF \E item \in PluginClasses(file) : Lower(item) = k
            THEN CHOOSE item \in PluginClasses(file) : Lower(item) = k
            ELSE plugs[k]]

\* _load_plugin after exec_module: self._plugins[item_name.lower()] = item
LoadPlugin(plugs, file) ==
    [k \in DOMAIN plugs \cup {Lower(item) : item \in PluginClasses(file)} |->
        IF \E item \in PluginClasses(file) : Lower(item) = k
        THEN CHOOSE item \in PluginClasses(file) : Lower(item) = k
        ELSE plugs[k]]

RECURSIVE DiscoverFromSkipping(_, _, _)
DiscoverFromSkipping(plugs, listing, i) ==
    IF i > Len(listing)
    THEN [outcome |-> "ok", file |-> None, plugins |-> plugs]
    ELSE IF ~Eligible(listing[i])
    THEN DiscoverFromSkipping(plugs, listing, i + 1)
    ELSE IF ~listing[i].loads
    THEN [outcome |-> "PluginLoadError", file |-> listing[i].name,
          plugins |-> DiscoverFromSkipping(plugs, listing, i + 1).plugins]
    ELSE DiscoverFromSkipping(LoadPlugin(plugs, listing[i]), listing, i + 1)

\* The loop of discover_plugins from file i of the listing on: the first
\* eligible file that fails to load ends it with PluginLoadError.
RECURSIVE DiscoverFrom(_, _, _)
DiscoverFrom(plugs, listing, i) ==
    IF i > Len(listing)
    THEN [outcome |-> "ok", file |-> None, plugins |-> plugs]
    ELSE IF ~Eligible(listing[i])
    THEN DiscoverFrom(plugs, listing, i + 1)
    ELSE IF ~listing[i].loads
    THEN [outcome |-> "PluginLoadError", file |-> listing[i].name,
          plugins |-> plugs]
    ELSE DiscoverFrom(LoadPlugin(plugs, listing[i]), listing, i + 1)

(***************************************************************************)
(* PluginManager.discover_plugins(plugin_dir)                              *)
(***************************************************************************)
RECURSIVE DiscoverFromRestoring(_, _, _, _)
DiscoverFromRestoring(before, plugs, listing, i) ==
    IF i > Len(listing)
    THEN [outcome |-> "ok", file |-> None, plugins |-> plugs]
    ELSE IF ~Eligible(listing[i])
    THEN DiscoverFromRestoring(before, plugs, listing, i + 1)
    ELSE IF ~listing[i].loads
    THEN [outcome |-> "PluginLoadError", file |-> listing[i].name,
          plugins |-> before]
    ELSE DiscoverFromRestoring(before, LoadPlugin(plugs, listing[i]),
                               listing, i + 1)

DiscoverPluginsRollingBack(dir) ==
    LET r == IF DirExists(dir)
             THEN DiscoverFromRestoring(plugins, plugins, Listing(dir), 1)
             ELSE [outcome |-> "PluginDiscoveryError", file |-> None,
                   plugins |-> plugins]
    IN  /\ plugins' = r.plugins
        /\ last' = [op |-> "discover_plugins", dir |-> dir,
                    outcome |-> r.outcome, file |-> r.file]
        /\ UNCHANGED <<commands, history, clock, files, saved, repl>>

DiscoverPluginsResetting(dir) ==
    LET r == IF DirExists(dir)
             THEN DiscoverFrom(plugins, Listing(dir), 1)
             ELSE [outcome |-> "PluginDiscoveryError", file |-> None,
                   plugins |-> [k \in {} |-> None]]
    IN  /\ plugins' = r.plugins
        /\ last' = [op |-> "discover_plugins", dir |-> dir,
                    outcome |-> r.outcome, file |-> r.file]
        /\ UNCHANGED <<commands, history, clock, files, saved, repl>>

DiscoverPlugins(dir) ==
    LET r == IF DirExists(dir)
             THEN DiscoverFrom(plugins, Listing(dir), 1)
             ELSE [outcome |-> "PluginDiscoveryError", file |-> None,
                   plugins |-> plugins]
    IN  /\ plugins' = r.plugins
        /\ last' = [op |-> "discover_plugins", dir |-> dir,
                    outcome |-> r.outcome, file |-> r.file]
        /\ UNCHANGED <<commands, history, clock, files, saved, repl>>

(***************************************************************************)
(* PluginManager.get_plugin(name)                                          *)
(***************************************************************************)
GetPlugin(name) ==
    /\ last' = [op |-> "get_plugin", name |-> name, outcome |-> "ok",
                plugin |-> DictGet(plugins, Lower(name))]
    /\ UNCHANGED <<commands, history, clock, files, saved, plugins, repl>>

(***************************************************************************)
(* The plugin specification: discovery, then the calculator and the plugin *)
(* manager asked for the names.                                            *)
(***************************************************************************)
PluginDirs == {"plugins", "mixed", "broken", "nowhere"}
PluginNames == {"add", "PowerCommand", "powercommand", "squarerootcommand",
                "logarithmcommand"}

NextPlugins ==
    \/ \E dir \in PluginDirs : DiscoverPlugins(dir)
    \/ \E name \in PluginNames : GetPlugin(name)
    \/ \E name \in PluginNames, a \in CalcFirst, b \in CalcSecond :
          Execute(name, a, b, clock + 1)
    \/ GetAvailableCommands

SpecPlugins == Init /\ [][NextPlugins]_vars

(***************************************************************************)
(* The history queries.  An optional argument is <<>> when it is None and  *)
(* <<x>> when it is x.                                                     *)
(***************************************************************************)
NoneArg == <<>>
Some(x) == <<x>>

\* if start_date: a datetime is true whenever it is given
GivenDate(date) == date # NoneArg

\* if operation: text is true when it is given and not empty
GivenOperation(operation) == operation # NoneArg /\ operation[1] # ""

\* if limit: an int is true when it is given and not 0
GivenLimit(limit) == limit # NoneArg /\ limit[1] # 0

FromDateExclusive(h, start) ==
    IF GivenDate(start)
    THEN SelectSeq(h, LAMBDA r : r.timestamp > start[1])
    ELSE h

\* history[history['timestamp'] >= start_date]
FromDate(h, start) ==
    IF GivenDate(start)
    THEN SelectSeq(h, LAMBDA r : r.timestamp >= start[1])
    ELSE h

\* history[history['timestamp'] <= end_date]
ToDate(h, end) ==
    IF GivenDate(end)
    THEN SelectSeq(h, LAMBDA r : r.timestamp <= end[1])
    ELSE h

\* history[history['operation'] == operation.lower()]
OfOperation(h, operation) ==
    IF GivenOperation(operation)
    THEN SelectSeq(h, LAMBDA r : r.operation = Lower(operation[1]))
    ELSE h

\* DataFrame.tail(n) for n >= 0: the last n rows, all of them when n is more
\* than there are
TailRows(h, n) == SubSeq(h, IF n >= Len(h) THEN 1 ELSE Len(h) - n + 1, Len(h))

\* history.tail(limit)
Limited(h, limit) == IF GivenLimit(limit) THEN TailRows(h, limit[1]) ELSE h

\* The rows get_history returns.
GetHistoryRows(h, start, end, operation, limit) ==
    Limited(OfOperation(ToDate(FromDate(h, start), end), operation), limit)

SameFrame(rows) == [rows |-> rows, shared |-> TRUE]

\* self._history.copy(), then the filters (each builds a new frame): the
\* frame returned shares nothing with the store
NewFrame(rows) == [rows |-> rows, shared |-> FALSE]

(***************************************************************************)
(* Calculator.get_history(start_date, end_date, operation, limit)          *)
(***************************************************************************)
GetHistory(start, end, operation, limit) ==
    /\ last' = [op |-> "get_history", start |-> start, end |-> end,
                operation |-> operation, limit |-> limit, outcome |-> "ok",
                returned |-> NewFrame(GetHistoryRows(history, start, end,
                                                     operation, limit))]
    /\ UNCHANGED <<commands, history, clock, files, saved, plugins, repl>>

(***************************************************************************)
(* The caller changes the frame get_history returned in place (it drops    *)
(* the first row); a frame that shares its rows with the store changes the *)
(* store with it.                                                          *)
(***************************************************************************)
MutateReturned ==
    /\ last.op = "get_history"
    /\ last.returned.rows # <<>>
    /\ last' = [op |-> "mutate_returned", outcome |-> "ok",
                returned |-> [rows |-> SubSeq(last.returned.rows, 2,
                                              Len(last.returned.rows)),
                              shared |-> last.returned.shared]]
    /\ history' = IF last.returned.shared
                  THEN SubSeq(last.returned.rows, 2, Len(last.returned.rows))
                  ELSE history
    /\ UNCHANGED <<commands, clock, files, saved, plugins, repl>>

(***************************************************************************)
(* The query specification: records of several names and instants, and     *)
(* get_history over them.  The clock never goes backwards.                 *)
(***************************************************************************)
QueryNames == {"add", "ADD", "divide"}
QueryDates == {NoneArg, Some(1)}
QueryOperations == {NoneArg, Some("ADD")}
QueryLimits == {NoneArg, Some(0), Some(1)}

NextQuery ==
    \/ \E name \in QueryNames, now \in 0 .. MaxClock :
          now >= clock /\ Execute(name, PyInt(3), PyStr(2), now)
    \/ \E start, end \in QueryDates, operation \in QueryOperations,
          limit \in QueryLimits :
          GetHistory(start, end, operation, limit)
    \/ MutateReturned

SpecQuery == Init /\ [][NextQuery]_vars

(***************************************************************************)
(* Calculator.get_history_stats().  Which of several names with the        *)
(* highest count max() meets first is the order value_counts() gives       *)
(* equal counts, which the code does not fix: any of them.                 *)
(***************************************************************************)
\* self._history['operation'].value_counts().to_dict()
OperationsCount(h) ==
    [name \in {h[i].operation : i \in 1 .. Len(h)} |->
        Cardinality({i \in 1 .. Len(h) : h[i].operation = name})]

AnyOperation(h) == DOMAIN OperationsCount(h)

\* The names with the highest count.
MostUsed(h) ==
    {name \in DOMAIN OperationsCount(h) :
        \A other \in DOMAIN OperationsCount(h) :
            OperationsCount(h)[other] <= OperationsCount(h)[name]}

RECURSIVE SumOfResults(_)
SumOfResults(h) ==
    IF h = <<>> THEN Rat(0, 1)
    ELSE LET rest == SumOfResults(SubSeq(h, 2, Len(h)))
         IN  Rat(h[1].result.n * rest.d + rest.n * h[1].result.d,
                 h[1].result.d * rest.d)

\* self._history['result'].mean()
MeanOfResults(h) ==
    Rat(SumOfResults(h).n, SumOfResults(h).d * Len(h))

\* The result for an empty history.
EmptyStats ==
    [total_calculations |-> 0, most_used_operation |-> None,
     average_result |-> Rat(0, 1), operations_count |-> [k \in {} |-> 0],
     last_calculation |-> NoneArg, unique_operations |-> 0]

HistoryStatsOfFirst(h, mostUsed) ==
    [total_calculations |-> Len(h), most_used_operation |-> mostUsed,
     average_result |-> MeanOfResults(h),
     operations_count |-> OperationsCount(h),
     last_calculation |-> Some(h[1].timestamp),
     unique_operations |-> Cardinality(DOMAIN OperationsCount(h))]

HistoryStats(h, mostUsed) ==
    [total_calculations |-> Len(h), most_used_operation |-> mostUsed,
     average_result |-> MeanOfResults(h),
     operations_count |-> OperationsCount(h),
     last_calculation |-> Some(h[Len(h)].timestamp),
     unique_operations |-> Cardinality(DOMAIN OperationsCount(h))]

GetHistoryStats ==
    /\ \E mostUsed \in IF history = <<>> THEN {None} ELSE MostUsed(history) :
          last' = [op |-> "get_history_stats", outcome |-> "ok",
                   stats |-> IF history = <<>> THEN EmptyStats
                             ELSE HistoryStats(history, mostUsed)]
    /\ UNCHANGED <<commands, history, clock, files, saved, plugins, repl>>

(***************************************************************************)
(* Calculator.clear_history()                                              *)
(***************************************************************************)
ClearHistoryKeepingLast ==
    /\ history' = IF history = <<>> THEN <<>>
                  ELSE <<history[Len(history)]>>
    /\ last' = [op |-> "clear_history", outcome |-> "ok"]
    /\ UNCHANGED <<commands, clock, files, saved, plugins, repl>>

ClearHistory ==
    /\ history' = <<>>
    /\ last' = [op |-> "clear_history", outcome |-> "ok"]
    /\ UNCHANGED <<commands, clock, files, saved, plugins, repl>>

(***************************************************************************)
(* The CSV file of a history: to_csv writes the header and one row of text *)
(* fields per record, read_csv parses them back.                           *)
(***************************************************************************)
\* if not filename.endswith('.csv'): filename += '.csv'
NormalizeFilename(filename) ==
    CASE filename = "h" -> "h.csv"
      [] filename = "g" -> "g.csv"
      [] OTHER -> filename

CsvHeader == <<"timestamp", "operation", "operands", "result">>

\* The text to_csv writes for a timestamp.
FormatTimestamp(t) == [text |-> "datetime", ticks |-> t]

\* parse_dates=['timestamp']
ParseDate(field) == field.ticks

\* The text to_csv writes for a float.
FormatFloat(x) == [text |-> "float", n |-> x.n, d |-> x.d]

\* The float read_csv parses from the text of a float.
ParseFloat(field) == Rat(field.n, field.d)

\* self._history.to_csv(filename, index=False)
ToCsv(h) ==
    [exists |-> TRUE, header |-> CsvHeader,
     rows |-> [i \in 1 .. Len(h) |->
                 [timestamp |-> FormatTimestamp(h[i].timestamp),
                  operation |-> h[i].operation,
                  operands |-> h[i].operands,
                  result |-> FormatFloat(h[i].result)]]]

\* A field that is not the text of a datetime or of a number.
Garbage == [text |-> "garbage"]

Columns(file) == {file.header[i] : i \in 1 .. Len(file.header)}

\* parse_dates: a column with a field that is no datetime is left as text.
DatesParse(file) ==
    \A i \in 1 .. Len(file.rows) : file.rows[i].timestamp.text = "datetime"

\* Type inference: a column with a field that is no number is left as text.
ResultsParse(file) ==
    \A i \in 1 .. Len(file.rows) : file.rows[i].result.text = "float"

\* pd.read_csv(filename, parse_dates=['timestamp']): the frame has the
\* columns of the file's header, each parsed as a whole or left as text.
ReadCsv(file) ==
    [i \in 1 .. Len(file.rows) |->
        LET row == file.rows[i]
            timestamp == IF DatesParse(file) THEN ParseDate(row.timestamp)
                         ELSE row.timestamp
        IN  IF "result" \in Columns(file)
            THEN NewRecord(timestamp, row.operation, row.operands,
                           IF ResultsParse(file) THEN ParseFloat(row.result)
                           ELSE row.result)
            ELSE [timestamp |-> timestamp, operation |-> row.operation,
                  operands |-> row.operands]]

(***************************************************************************)
(* Calculator.save_history(filename)                                       *)
(***************************************************************************)
SaveHistory(filename) ==
    /\ files' = [files EXCEPT ![NormalizeFilename(filename)] = ToCsv(history)]
    /\ saved' = [saved EXCEPT ![NormalizeFilename(filename)] = history]
    /\ last' = [op |-> "save_history", filename |-> filename, outcome |-> "ok"]
    /\ UNCHANGED <<commands, history, clock, plugins, repl>>

LoadResultMerging(h, file) ==
    IF ~file.exists
    THEN [outcome |-> "FileNotFoundError", history |-> h]
    ELSE [outcome |-> "ok", history |-> h \o ReadCsv(file)]

LoadResultResetting(h, file) ==
    IF ~file.exists
    THEN [outcome |-> "FileNotFoundError", history |-> <<>>]
    ELSE [outcome |-> "ok", history |-> ReadCsv(file)]

\* self._history = pd.read_csv(...): read_csv raises FileNotFoundError for
\* a path with no file, before the assignment
\* and ValueError for a file without the column named in parse_dates.
LoadResult(h, file) ==
    IF ~file.exists
    THEN [outcome |-> "FileNotFoundError", history |-> h]
    ELSE IF "timestamp" \notin Columns(file)
    THEN [outcome |-> "ValueError", history |-> h]
    ELSE [outcome |-> "ok", history |-> ReadCsv(file)]

(***************************************************************************)
(* Calculator.load_history(filename)                                       *)
(***************************************************************************)
LoadHistory(filename) ==
    LET r == LoadResult(history, files[NormalizeFilename(filename)])
    IN  /\ Len(r.history) <= MaxHist
        /\ history' = r.history
        /\ last' = [op |-> "load_history", filename |-> filename,
                    outcome |-> r.outcome]
        /\ UNCHANGED <<commands, clock, files, saved, plugins, repl>>

(***************************************************************************)
(* The store specification: records, queries, clear, save and load.  The   *)
(* clock advances by one tick at every record.                             *)
(***************************************************************************)
StoreNames == {"add", "ADD"}
SavePaths == {"h", "h.csv"}
LoadPaths == {"h", "h.csv", "g"}

NextStore ==
    \/ \E name \in StoreNames :
          clock < MaxClock /\ Execute(name, PyInt(3), PyStr(2), clock + 1)
    \/ ClearHistory
    \/ \E filename \in SavePaths : SaveHistory(filename)
    \/ \E filename \in LoadPaths : LoadHistory(filename)
    \/ \E operation \in QueryOperations, limit \in {NoneArg, Some(1)} :
          GetHistory(NoneArg, NoneArg, operation, limit)
    \/ GetHistoryStats
    \/ MutateReturned

SpecStore == Init /\ [][NextStore]_vars

(***************************************************************************)
(* Files that save_history did not write: a row whose timestamp is no      *)
(* datetime, a row whose result is no number, a file without the result    *)
(* column, a file without the timestamp column.                            *)
(***************************************************************************)
ForeignRow(timestamp, result) ==
    [timestamp |-> timestamp, operation |-> "add", operands |-> "3, 2",
     result |-> result]

BadTimestampFile ==
    [exists |-> TRUE, header |-> CsvHeader,
     rows |-> <<ForeignRow(Garbage, FormatFloat(Rat(5, 1)))>>]

BadResultFile ==
    [exists |-> TRUE, header |-> CsvHeader,
     rows |-> <<ForeignRow(FormatTimestamp(1), Garbage)>>]

NoResultColumnFile ==
    [exists |-> TRUE, header |-> <<"timestamp", "operation", "operands">>,
     rows |-> <<[timestamp |-> FormatTimestamp(1), operation |-> "add",
                 operands |-> "3, 2"]>>]

NoTimestampColumnFile ==
    [exists |-> TRUE, header |-> <<"operation", "operands", "result">>,
     rows |-> <<[operation |-> "add", operands |-> "3, 2",
                 result |-> FormatFloat(Rat(5, 1))]>>]

ForeignFiles ==
    {BadTimestampFile, BadResultFile, NoResultColumnFile,
     NoTimestampColumnFile}

\* The file load_history finds at the path, put there by another program.
WriteFile(path, file) ==
    /\ files' = [files EXCEPT ![path] = file]
    /\ last' = [op |-> "write_file", path |-> path]
    /\ UNCHANGED <<commands, history, clock, saved, plugins, repl>>

(***************************************************************************)
(* The load specification: records, clear, and load of files of any origin.*)
(***************************************************************************)
NextLoad ==
    \/ \E name \in StoreNames :
          clock < MaxClock /\ Execute(name, PyInt(3), PyStr(2), clock + 1)
    \/ ClearHistory
    \/ \E path \in DOMAIN files, file \in ForeignFiles : WriteFile(path, file)
    \/ \E filename \in LoadPaths : LoadHistory(filename)

SpecLoad == Init /\ [][NextLoad]_vars

(***************************************************************************)
(* The order specification: records at instants of a clock that never goes *)
(* backwards (two records may share an instant), clear, save, and load of  *)
(* the files save_history wrote.                                           *)
(***************************************************************************)
OrderPaths == {"h", "g.csv"}

NextOrder ==
    \/ \E now \in clock .. MaxClock :
          Execute("add", PyInt(3), PyStr(2), now)
    \/ ClearHistory
    \/ \E filename \in OrderPaths : SaveHistory(filename)
    \/ \E filename \in OrderPaths : LoadHistory(filename)
    \/ GetHistoryStats

SpecOrder == Init /\ [][NextOrder]_vars

(***************************************************************************)
(* Calculator() and PluginManager(): __new__ builds the instance when the  *)
(* class has none and returns the instance of the class otherwise.  The    *)
(* state after construction has both instances.                            *)
(***************************************************************************)
TheCalculator == "Calculator#1"
ThePluginManager == "PluginManager#1"

CalculatorNewAgain(instance, cmds, h) ==
    [instance |-> "Calculator#2", commands |-> BaseCommands, history |-> <<>>]

\* Calculator.__new__(cls), cls._instance being instance
CalculatorNew(instance, cmds, h) ==
    IF instance = None
    THEN [instance |-> TheCalculator, commands |-> BaseCommands,
          history |-> <<>>]
    ELSE [instance |-> instance, commands |-> cmds, history |-> h]

\* PluginManager.__new__(cls), cls._instance being instance
PluginManagerNew(instance, plugs) ==
    IF instance = None
    THEN [instance |-> ThePluginManager, plugins |-> [k \in {} |-> None]]
    ELSE [instance |-> instance, plugins |-> plugs]

NewCalculator ==
    LET r == CalculatorNew(TheCalculator, commands, history)
    IN  /\ commands' = r.commands
        /\ history' = r.history
        /\ last' = [op |-> "Calculator", instance |-> r.instance]
        /\ UNCHANGED <<clock, files, saved, plugins, repl>>

NewPluginManager ==
    LET r == PluginManagerNew(ThePluginManager, plugins)
    IN  /\ plugins' = r.plugins
        /\ last' = [op |-> "PluginManager", instance |-> r.instance]
        /\ UNCHANGED <<commands, history, clock, files, saved, repl>>

(***************************************************************************)
(* The session specification: the constructors called again among records, *)
(* registrations and discoveries.                                          *)
(***************************************************************************)
NextSession ==
    \/ NewCalculator
    \/ NewPluginManager
    \/ \E name \in StoreNames :
          clock < MaxClock /\ Execute(name, PyInt(3), PyStr(2), clock + 1)
    \/ \E command \in RegCommands : RegisterCommand("Test", command)
    \/ \E dir \in {"plugins", "broken"} : DiscoverPlugins(dir)

SpecSession == Init /\ [][NextSession]_vars

(***************************************************************************)
(* The command specification: execute called on an instance of each        *)
(* command class with float operands, positive, zero and negative, whole   *)
(* and halves; the square root and the logarithm also without the second.  *)
(***************************************************************************)
CommandClasses ==
    {"AddCommand", "SubtractCommand", "MultiplyCommand", "DivideCommand",
     "PowerCommand", "SquareRootCommand", "LogarithmCommand"}

Operands == {Rat(n, d) : n \in -MaxOperand .. MaxOperand, d \in 1 .. 2}

\* result = command.execute(a, b) on an instance of the class
CallExecute(cmd, a, b) ==
    /\ last' = [op |-> "execute", cmd |-> cmd, a |-> a, b |-> b,
                result |-> CommandExecute(cmd, a, b)]
    /\ UNCHANGED <<commands, history, clock, files, saved, plugins, repl>>

NextCommands ==
    \/ \E cmd \in CommandClasses, a \in Operands, b \in Operands :
          CallExecute(cmd, a, b)
    \/ \E cmd \in {"SquareRootCommand", "LogarithmCommand"}, a \in Operands :
          CallExecute(cmd, a, NoSecond)

SpecCommands == Init /\ [][NextCommands]_vars

(***************************************************************************)
(* CalculatorREPL.  An input line is the command word, the tokens after it *)
(* that stand for numbers (numeric text or other text) and the token that  *)
(* stands for a file name ("" when there is none).  What a handler does is  *)
(* the text it prints, whether it asks the loop to stop, the exception it  *)
(* lets out (None when it lets none out) and the calculator state it       *)
(* leaves.                                                                 *)
(***************************************************************************)
Line(cmd, args, file) == [cmd |-> cmd, args |-> args, file |-> file]

Handled(printed, stop, h, now, fs, sv) ==
    [printed |-> printed, stop |-> stop, escaped |-> None, history |-> h,
     clock |-> now, files |-> fs, saved |-> sv]

Escaped(error, h, now, fs, sv) ==
    [printed |-> "traceback", stop |-> FALSE, escaped |-> error,
     history |-> h, clock |-> now, files |-> fs, saved |-> sv]

\* Nothing of the calculator changes.
Prints(printed) == Handled(printed, FALSE, history, clock, files, saved)

\* num1, num2 = map(float, shlex.split(arg)) raises ValueError
BadOperands(args) ==
    Len(args) # 2 \/ \E i \in 1 .. Len(args) : ~IsNumeric(args[i])

\* do_add, do_subtract, do_multiply (caught: ValueError) and do_divide
\* (caught: ValueError, ZeroDivisionError)
DoArithmetic(name, caught, args) ==
    IF BadOperands(args) THEN Prints("error")
    ELSE LET r == ExecuteCommand(commands, history, name, args[1], args[2],
                                 clock + 1)
         IN  IF r.outcome = "ok"
             THEN Handled("result", FALSE, r.history, clock + 1, files, saved)
             ELSE IF r.outcome \in caught
             THEN Handled("error", FALSE, r.history, clock, files, saved)
             ELSE Escaped(r.outcome, r.history, clock, files, saved)

\* default(line): the plugin command of the name, executed on an instance
\* of its class with 0 for a second operand that is not given; only
\* ValueError is caught.
Default(line) ==
    LET plugin == DictGet(plugins, Lower(line.cmd))
    IN  IF plugin = None THEN Prints("unknown command")
        ELSE IF Len(line.args) < 1 THEN Prints("error")
        ELSE IF ~IsNumeric(line.args[1]) THEN Prints("error")
        ELSE IF Len(line.args) > 1 /\ ~IsNumeric(line.args[2])
        THEN Prints("error")
        ELSE LET r == CommandExecute(plugin, Float(line.args[1]),
                                     IF Len(line.args) = 1 THEN Rat(0, 1)
                                     ELSE Float(line.args[2]))
             IN  IF r.ok THEN Prints("result")
                 ELSE IF r.error = "ValueError" THEN Prints("error")
                 ELSE Escaped(r.error, history, clock, files, saved)

\* do_history without filters
DoHistory ==
    IF GetHistoryRows(history, NoneArg, NoneArg, NoneArg, NoneArg) = <<>>
    THEN Prints("no calculations") ELSE Prints("rows")

\* do_history_stats
DoHistoryStats ==
    IF history = <<>> THEN Prints("no calculations") ELSE Prints("stats")

\* do_clear_history
DoClearHistory == Handled("cleared", FALSE, <<>>, clock, files, saved)

\* do_save_history: IndexError (no file name) and FileNotFoundError are
\* caught
DoSaveHistory(line) ==
    IF line.file = "" THEN Prints("error")
    ELSE Handled("saved", FALSE, history, clock,
                 [files EXCEPT ![NormalizeFilename(line.file)] =
                     ToCsv(history)],
                 [saved EXCEPT ![NormalizeFilename(line.file)] = history])

\* do_load_history: IndexError (no file name) and FileNotFoundError are
\* caught
DoLoadHistory(line) ==
    IF line.file = "" THEN Prints("error")
    ELSE LET r == LoadResult(history, files[NormalizeFilename(line.file)])
         IN  IF r.outcome = "ok"
             THEN Handled("loaded", FALSE, r.history, clock, files, saved)
             ELSE IF r.outcome = "FileNotFoundError" THEN Prints("error")
             ELSE Escaped(r.outcome, r.history, clock, files, saved)

\* do_quit, do_exit, do_end, do_EOF
DoQuit == Handled("goodbye", TRUE, history, clock, files, saved)

\* cmd.Cmd.onecmd(line): the do_ method of the command word, emptyline for
\* an empty line, default for any other word.
OneCmd(line) ==
    CASE line.cmd \in {"add", "subtract", "multiply"}
            -> DoArithmetic(line.cmd, {"ValueError"}, line.args)
      [] line.cmd = "divide"
            -> DoArithmetic("divide", {"ValueError", "ZeroDivisionError"},
                            line.args)
      [] line.cmd = "history" -> DoHistory
      [] line.cmd = "history_stats" -> DoHistoryStats
      [] line.cmd = "clear_history" -> DoClearHistory
      [] line.cmd = "save_history" -> DoSaveHistory(line)
      [] line.cmd = "load_history" -> DoLoadHistory(line)
      [] line.cmd \in {"quit", "exit", "end", "EOF"} -> DoQuit
      [] line.cmd = "help" -> Prints("help")
      [] line.cmd = "" -> Prints("")
      [] OTHER -> Default(line)

\* CalculatorREPL(): Calculator(), PluginManager(), discover_plugins() of
\* the default directory; then cmdloop() is entered.
ReplStart ==
    /\ repl = "none"
    /\ DiscoverFrom(plugins, Listing("plugins"), 1).outcome = "ok"
    /\ plugins' = DiscoverFrom(plugins, Listing("plugins"), 1).plugins
    /\ repl' = "running"
    /\ last' = [op |-> "cmdloop"]
    /\ UNCHANGED <<commands, history, clock, files, saved>>

\* One turn of cmdloop(): the line is read and handled, and the loop goes
\* on, ends because the handler asked to stop, or is left by the exception
\* the handler let out.
ReplLine(line) ==
    LET r == OneCmd(line)
    IN  /\ repl = "running"
        /\ Len(r.history) <= MaxHist
        /\ r.clock <= MaxClock
        /\ history' = r.history
        /\ clock' = r.clock
        /\ files' = r.files
        /\ saved' = r.saved
        /\ repl' = IF r.escaped # None THEN "escaped"
                   ELSE IF r.stop THEN "stopped" ELSE "running"
        /\ last' = [op |-> "onecmd", line |-> line, printed |-> r.printed,
                    escaped |-> r.escaped]
        /\ UNCHANGED <<commands, plugins>>

(***************************************************************************)
(* The session specification of the REPL: lines of every handler, with     *)
(* operands that are numbers, zero, negative or no number, names that are  *)
(* no command, and files that exist, do not exist or have no timestamp     *)
(* column.                                                                 *)
(***************************************************************************)
ReplLines ==
    {Line(cmd, <<PyStr(3), b>>, "") :
        cmd \in {"add", "divide"}, b \in {PyStr(2), PyStr(0), PyText}}
    \cup {Line("add", <<PyStr(3)>>, "")}
    \cup {Line(cmd, <<PyStr(a)>>, "") :
            cmd \in {"squarerootcommand", "nope"}, a \in {4, -1}}
    \cup {Line("logarithmcommand", <<PyStr(2), PyStr(b)>>, "") :
            b \in {2, 1, 0}}
    \cup {Line("powercommand", <<PyStr(2), PyText>>, "")}
    \cup {Line(cmd, <<>>, file) :
            cmd \in {"save_history", "load_history"}, file \in {"", "h"}}
    \cup {Line("load_history", <<>>, "g")}
    \cup {Line(cmd, <<>>, "") :
            cmd \in {"history", "history_stats", "clear_history", "help", "",
                     "quit", "exit", "end", "EOF"}}

NextRepl ==
    \/ ReplStart
    \/ \E line \in ReplLines : ReplLine(line)
    \/ WriteFile("g.csv", NoTimestampColumnFile)

SpecRepl == Init /\ [][NextRepl]_vars

(***************************************************************************)
(* The whole machine.                                                      *)
(***************************************************************************)
Next ==
    \/ NextCalc \/ NextPlugins \/ NextQuery \/ NextStore \/ NextLoad
    \/ NextOrder \/ NextSession \/ NextCommands \/ NextRepl

Spec == Init /\ [][Next]_vars

(***************************************************************************)
(* Steps and states the claims speak of.                                   *)
(***************************************************************************)
\* The step is a call of execute_command that returned a value.
ExecuteReturned == last'.op = "execute_command" /\ last'.outcome = "ok"

\* The step is a call of execute_command that raised.
ExecuteRaised == last'.op = "execute_command" /\ last'.outcome # "ok"

\* The state right after a call of execute_command that returned a value.
AfterExecute == last.op = "execute_command" /\ last.outcome = "ok"

\* The command a name resolves to, None when there is none.
Dispatch(cmds, name) == DictGet(cmds, Lower(name))

\* C1: a successful execute_command leaves the history as it was with exactly
\* one record appended at the end; the record's operands are the text of
\* (float(a), float(b)), its result is the value returned, and the earlier
\* records are unchanged and in the same order.
C1_ExecuteAppendsOneRecord ==
    [][ExecuteReturned =>
          /\ Len(history') = Len(history) + 1
          /\ SubSeq(history', 1, Len(history)) = history
          /\ history'[Len(history')].operands =
                 StrOfOperands(Float(last'.a), Float(last'.b))
          /\ history'[Len(history')].result = last'.value]_vars

C1_Witness ==
    /\ AfterExecute
    /\ Len(history) >= 2
    /\ history[Len(history)].operands = StrOfOperands(Rat(3, 1), Rat(2, 1))

\* C2: when execute_command fails (unknown name: ValueError; the operation
\* raises, as divide by zero does: ZeroDivisionError) the error reaches the
\* caller and the history and the registry are what they were.
C2_FailedExecuteChangesNothing ==
    [][ExecuteRaised =>
          /\ history' = history
          /\ commands' = commands
          /\ last'.outcome \in {"ValueError", "ZeroDivisionError"}
          /\ Dispatch(commands, last'.name) = None => last'.outcome = "ValueError"
          /\ (/\ Dispatch(commands, last'.name) = "DivideCommand"
              /\ IsNumeric(last'.b) /\ Float(last'.b) = Rat(0, 1))
                 => last'.outcome = "ZeroDivisionError"]_vars

C2_Witness ==
    /\ last.op = "execute_command"
    /\ last.outcome = "ZeroDivisionError"
    /\ Len(history) >= 1

\* C3: every record execute_command puts into the history has as operation
\* the lowercase form of the name it was invoked with.
C3_OperationIsLowercase ==
    AfterExecute => history[Len(history)].operation = Lower(last.name)

\* C4: execute_command(n, a, b) dispatches to the command most recently
\* registered under a name equal to n ignoring case: a registration changes
\* what exactly the names equal to its name ignoring case resolve to, and
\* execute_command runs what the name resolves to, and fails with the
\* unknown-command error when the name resolves to nothing.
C4_LastRegistrationWins ==
    [][/\ last'.op = "register_command" =>
             \A n \in CalcNames :
                 Dispatch(commands', n) =
                     IF Lower(n) = Lower(last'.name) THEN last'.command
                     ELSE Dispatch(commands, n)
       /\ last'.op = "execute_command" =>
             IF Dispatch(commands, last'.name) = None
             THEN last'.outcome = "ValueError"
             ELSE (IsNumeric(last'.a) /\ IsNumeric(last'.b)) =>
                     LET r == CommandExecute(Dispatch(commands, last'.name),
                                             Float(last'.a), Float(last'.b))
                     IN  /\ last'.outcome = (IF r.ok THEN "ok" ELSE r.error)
                         /\ last'.value = r.value]_vars

C4_Witness ==
    /\ AfterExecute
    /\ last.name = "add"
    /\ commands["add"] = "SubtractCommand"
    /\ last.value = Rat(1, 1)

\* The keys a successful discovery of a directory registers: the lowercase
\* class names of the command classes of its eligible files.
DiscoveredKeys(dir) ==
    {Lower(item) : item \in
        UNION {PluginClasses(Listing(dir)[i]) :
                  i \in {j \in 1 .. Len(Listing(dir)) : Eligible(Listing(dir)[j])}}}

\* C5: after discover_plugins succeeds, every command class of an eligible
\* plugin file is registered, under its lowercase class name, in the
\* registry the Calculator resolves names from.
C5_PluginsRegisteredInCalculator ==
    (last.op = "discover_plugins" /\ last.outcome = "ok") =>
        \A k \in DiscoveredKeys(last.dir) : Dispatch(commands, k) # None

\* The filters the claims about get_history range over.
Instants == 0 .. MaxClock
DateFilters == {NoneArg} \cup {Some(t) : t \in Instants}
OperationFilters == {NoneArg, Some("add"), Some("ADD"), Some("divide"), Some("nope")}

\* The record passes the filters of start, end and operation that are given.
Matches(r, start, end, operation) ==
    /\ start # NoneArg => r.timestamp >= start[1]
    /\ end # NoneArg => r.timestamp <= end[1]
    /\ operation # NoneArg => r.operation = Lower(operation[1])

\* The stored records that pass the filters, in the order of the store.
Matching(h, start, end, operation) ==
    SelectSeq(h, LAMBDA r : Matches(r, start, end, operation))

\* The last Min(n, Len(s)) elements of s.
LastOf(s, n) ==
    LET k == IF n < Len(s) THEN n ELSE Len(s)
    IN  [i \in 1 .. k |-> s[Len(s) - k + i]]

C7_LimitKeepsTail ==
    (last.op = "get_history" /\ last.limit # NoneArg) =>
        last.returned.rows =
            LastOf(Matching(history, last.start, last.end, last.operation),
                   last.limit[1])

\* The call made no use of a filter.
Unfiltered(call) ==
    /\ call.op = "get_history"
    /\ call.start = NoneArg /\ call.end = NoneArg
    /\ call.operation = NoneArg /\ call.limit = NoneArg

\* C8: get_history, get_history_stats and save_history leave the history and
\* the registry unchanged; get_history() without filters returns the whole
\* store, so two such calls in a row return the same sequence; changing the
\* returned sequence does not change the store.
C8_QueriesChangeNothing ==
    [][/\ last'.op \in {"get_history", "get_history_stats", "save_history"} =>
             history' = history /\ commands' = commands
       /\ Unfiltered(last') => last'.returned.rows = history
       /\ (Unfiltered(last) /\ Unfiltered(last')) =>
             last'.returned.rows = last.returned.rows
       /\ last'.op = "mutate_returned" =>
             history' = history /\ commands' = commands]_vars

C8_Witness ==
    /\ last.op = "mutate_returned"
    /\ Len(history) = 2
    /\ Len(last.returned.rows) = 1
    /\ files["h.csv"].exists

C10_LoadMissingFile ==
    [][(/\ last'.op = "load_history"
        /\ ~files[NormalizeFilename(last'.filename)].exists) =>
          /\ last'.outcome = "FileNotFoundError"
          /\ history' = history]_vars

C10_Witness ==
    /\ last.op = "load_history"
    /\ last.outcome = "FileNotFoundError"
    /\ Len(history) = 2
    /\ files["h.csv"].exists

\* The file has a row or a header that save_history does not write.
Malformed(file) ==
    /\ file.exists
    /\ \/ file.header # CsvHeader
       \/ ~DatesParse(file)
       \/ ~ResultsParse(file)

\* C11: load_history of an existing file with a malformed row (a timestamp
\* that is no datetime, a result that is no number, a missing column) fails
\* with an error and leaves the store as it was.
C11_MalformedFileRejected ==
    [][(last'.op = "load_history"
        /\ Malformed(files[NormalizeFilename(last'.filename)]))
       => (last'.outcome # "ok" /\ history' = history)]_vars

\* C12: clear_history leaves the store empty, and on an empty store
\* get_history returns no record and get_history_stats returns the zero
\* result (total 0, most used none, average 0, no counts, no last
\* calculation, 0 unique operations).
C12_ClearLeavesEmpty ==
    /\ last.op = "clear_history" => history = <<>>
    /\ (history = <<>> /\ last.op = "get_history")
          => last.returned.rows = <<>>
    /\ (history = <<>> /\ last.op = "get_history_stats")
          => last.stats = EmptyStats

\* The statistics of a store that held a record and was cleared (no file
\* was written, so only clear_history can have emptied it).
C12_Witness ==
    /\ clock > 0
    /\ history = <<>>
    /\ \A path \in DOMAIN files : ~files[path].exists
    /\ last.op = "get_history_stats"
    /\ last.stats = EmptyStats

\* The number of records of the store with the name.
CountOf(h, name) == Cardinality({i \in 1 .. Len(h) : h[i].operation = name})

NamesOf(h) == {h[i].operation : i \in 1 .. Len(h)}

RECURSIVE SumOfCounts(_, _)
SumOfCounts(counts, names) ==
    IF names = {} THEN 0
    ELSE LET name == CHOOSE n \in names : TRUE
         IN  counts[name] + SumOfCounts(counts, names \ {name})

\* The position of the first record with the name.
FirstRecord(h, name) ==
    CHOOSE i \in 1 .. Len(h) :
        /\ h[i].operation = name
        /\ \A j \in 1 .. i - 1 : h[j].operation # name

\* The statistics get_history_stats returned for the non-empty store.
StatsOfStore == last.op = "get_history_stats" /\ history # <<>>

Discovered == last'.op = "discover_plugins"

\* C14: discover_plugins of a directory that does not exist fails with the
\* directory-not-found error, loads no file and leaves the registered
\* plugins (and the calculator's commands) as they were.
C14_MissingDirectory ==
    [][(Discovered /\ ~DirExists(last'.dir))
       => /\ last'.outcome = "PluginDiscoveryError"
          /\ last'.file = None
          /\ plugins' = plugins
          /\ commands' = commands]_vars

\* The call failed on a missing directory with plugins registered before.
C14_Witness ==
    /\ last.op = "discover_plugins"
    /\ ~DirExists(last.dir)
    /\ last.outcome = "PluginDiscoveryError"
    /\ DOMAIN plugins # {}

\* The positions of the eligible files of the directory that fail to load.
Failing(dir) ==
    {i \in 1 .. Len(Listing(dir)) :
        Eligible(Listing(dir)[i]) /\ ~Listing(dir)[i].loads}

\* The position of the first of them.
FirstFailing(dir) == CHOOSE i \in Failing(dir) : \A j \in Failing(dir) : i <= j

\* The keys of the command classes of the eligible files at the positions.
KeysAt(dir, positions) ==
    {Lower(item) : item \in
        UNION {PluginClasses(Listing(dir)[i]) :
                  i \in {j \in positions : Eligible(Listing(dir)[j])}}}

\* C15: when an eligible file of the directory fails to load, the call
\* raises PluginLoadError naming the first such file, and no file after it
\* in the listing is registered by the call.
C15_LoadFailureAborts ==
    [][(Discovered /\ DirExists(last'.dir) /\ Failing(last'.dir) # {})
       => /\ last'.outcome = "PluginLoadError"
          /\ last'.file = Listing(last'.dir)[FirstFailing(last'.dir)].name
          /\ DOMAIN plugins' \subseteq
                DOMAIN plugins
                  \cup KeysAt(last'.dir, 1 .. FirstFailing(last'.dir) - 1)]_vars

\* The call failed on bad.py and the class of log.py, listed after it, is
\* not registered.
C15_Witness ==
    /\ last.op = "discover_plugins"
    /\ last.outcome = "PluginLoadError"
    /\ last.file = "bad.py"
    /\ "logarithmcommand" \notin DOMAIN plugins

\* C16: running discover_plugins again on the same directory changes
\* nothing in the registry: the same names, bound to the same classes, and
\* the same outcome.
C16_DiscoverIdempotent ==
    [][(last.op = "discover_plugins" /\ Discovered /\ last'.dir = last.dir)
       => (plugins' = plugins /\ last'.outcome = last.outcome)]_vars

\* discover_plugins ran on a directory with plugin classes, at least once
\* before (the registry is the same as after a first run).
C16_Witness ==
    /\ last.op = "discover_plugins"
    /\ last.outcome = "ok"
    /\ DOMAIN plugins = DiscoveredKeys(last.dir)
    /\ DOMAIN plugins # {}

\* The records are in the order of their timestamps.
Sorted(h) ==
    \A i \in 1 .. Len(h) - 1 : h[i].timestamp <= h[i + 1].timestamp

\* C17: under a clock that never goes backwards, after any sequence of
\* execute_command, clear_history, save_history and load_history of files
\* this store saved, the history is sorted by timestamp, so that
\* last_calculation is the greatest timestamp of the store.
C17_HistorySorted ==
    /\ Sorted(history)
    /\ StatsOfStore =>
          /\ last.stats.last_calculation # NoneArg
          /\ \A i \in 1 .. Len(history) :
                history[i].timestamp <= last.stats.last_calculation[1]
          /\ \E i \in 1 .. Len(history) :
                history[i].timestamp = last.stats.last_calculation[1]

\* Statistics of a store of records of different instants that was loaded
\* from a file after later records were made (its last record is older
\* than the clock).
C17_Witness ==
    /\ StatsOfStore
    /\ Len(history) >= 2
    /\ history[1].timestamp < history[Len(history)].timestamp
    /\ history[Len(history)].timestamp < clock

\* C18: Calculator() called again returns the one instance and changes
\* neither the registry nor the history; PluginManager() called again
\* returns the one instance and leaves its plugins as they were.
C18_OneSharedInstance ==
    [][/\ last'.op = "Calculator"
          => /\ last'.instance = TheCalculator
             /\ commands' = commands
             /\ history' = history
       /\ last'.op = "PluginManager"
          => /\ last'.instance = ThePluginManager
             /\ plugins' = plugins]_vars

\* Calculator() was called on a store with records and a registered
\* command, with plugins discovered.
C18_Witness ==
    /\ last.op = "Calculator"
    /\ history # <<>>
    /\ "test" \in DOMAIN commands
    /\ DOMAIN plugins # {}

\* The call of execute raised the error and returned no number.
Failed(error) ==
    /\ ~last.result.ok
    /\ last.result.error = error
    /\ last.result.value = NoValue

\* C19: DivideCommand.execute(a, b) raises the division-by-zero error for
\* every a when b is 0, SquareRootCommand.execute raises the domain error
\* for every a < 0, LogarithmCommand.execute raises it for every a <= 0,
\* none returns a number then; Add, Subtract and Multiply never raise.
C19_DomainErrors ==
    last.op = "execute" =>
        /\ (last.cmd = "DivideCommand" /\ last.b.n = 0)
              => Failed("ZeroDivisionError")
        /\ (last.cmd = "SquareRootCommand" /\ last.a.n < 0)
              => Failed("ValueError")
        /\ (last.cmd = "LogarithmCommand" /\ last.a.n <= 0)
              => Failed("ValueError")
        /\ last.cmd \in {"AddCommand", "SubtractCommand", "MultiplyCommand"}
              => last.result.ok

\* The square root of a negative number was asked for, and refused.
C19_Witness ==
    /\ last.op = "execute"
    /\ last.cmd = "SquareRootCommand"
    /\ last.a.n < 0
    /\ Failed("ValueError")

\* The class a key is bound to by the eligible files at the positions: that
\* of the last of them that has a class of the key.
ClassAt(dir, positions, k) ==
    LET having == {i \in positions :
                      /\ Eligible(Listing(dir)[i])
                      /\ \E item \in PluginClasses(Listing(dir)[i]) :
                            Lower(item) = k}
        latest == CHOOSE i \in having : \A j \in having : j <= i
    IN  CHOOSE item \in PluginClasses(Listing(dir)[latest]) : Lower(item) = k

\* The registry overridden by the classes of the files at the positions.
Overridden(plugs, dir, positions) ==
    [k \in DOMAIN plugs \cup KeysAt(dir, positions) |->
        IF k \in KeysAt(dir, positions) THEN ClassAt(dir, positions, k)
        ELSE plugs[k]]

\* C20: when discover_plugins aborts with PluginLoadError, the registry
\* after the call is the registry before it overridden by the classes of
\* exactly the files that precede the failing file in the listing: what
\* they registered stays, nothing is rolled back.
C20_NoRollback ==
    [][(Discovered /\ last'.outcome = "PluginLoadError")
       => plugins' = Overridden(plugins, last'.dir,
                                1 .. FirstFailing(last'.dir) - 1)]_vars

\* The call aborted on bad.py in a registry that had the square root but
\* not the power: the power of power.py, listed before bad.py, is there.
C20_Witness ==
    /\ last.op = "discover_plugins"
    /\ last.outcome = "PluginLoadError"
    /\ "powercommand" \in DOMAIN plugins
    /\ "squarerootcommand" \in DOMAIN plugins

\* The words that end the session.
QuitWords == {"quit", "exit", "end", "EOF"}

\* C21: quit, exit, end and EOF always stop the session; any other input
\* line, failing or not, has its outcome printed as text and leaves the
\* loop running: no exception leaves it.
C21_OnlyQuitStops ==
    [][last'.op = "onecmd"
       => IF last'.line.cmd \in QuitWords
          THEN repl' = "stopped"
          ELSE repl' = "running" /\ last'.escaped = None]_vars

====
